---------------------------- MODULE Spec2Model ----------------------------
(***************************************************************************)
(* tbserve: the query-resolution pipeline of src/src/tbserve.cpp.          *)
(*                                                                         *)
(*   validate_fen       the defensive scan of the FEN text                 *)
(*   get_api            the request handler: validate, parse, enumerate,   *)
(*                      evaluate every legal move, rank, reply             *)
(*   compare_move_info  the comparator handed to std::sort                 *)
(*                                                                         *)
(* The chess engine (Position, MoveList) and the tablebase backends        *)
(* (Tablebases::probe_dtz, tb_probe_hard) are external: what they return   *)
(* is drawn nondeterministically from small sets.                          *)
(***************************************************************************)
EXTENDS Integers, Sequences, FiniteSets, TLC

VARIABLES
    variant,        \* TABLEBASE_VARIANT of the build: "chess" or "atomic"
    gaviota,        \* whether the build defines GAVIOTA
    MaxCardinality, \* Tablebases::MaxCardinality, set by Tablebases::init
    pc,             \* position of get_api ("idle": between two requests)
    req,            \* the request being handled
    fen,            \* std::string fen of get_api (after std::replace)
    calls,          \* the external calls get_api made for this request
    pos,            \* Position pos of get_api
    legals,         \* number of moves in MoveList<LEGAL>(pos) of the query
    checkmate,      \* bool checkmate of get_api (the query position's)
    m,              \* index of the move the loop is at
    info,           \* MoveInfo info of the loop body
    move_infos,     \* std::vector<MoveInfo> move_infos
    replies,        \* replies sent for this request
    v_in,           \* validate_fen alone: the memory handed to it
    v_out           \* validate_fen alone: its outcome

serverVars == <<pc, req, fen, calls, pos, legals, checkmate, m, info,
                move_infos, replies>>
buildVars == <<variant, gaviota, MaxCardinality>>
validateVars == <<v_in, v_out>>
vars == <<buildVars, serverVars, validateVars>>

-----------------------------------------------------------------------------
(* Characters.  A C string is a sequence of one-character strings; NUL is  *)
(* the terminator.  Ord gives the character's code, which is what the      *)
(* range tests of validate_fen compare.                                    *)

NUL == "NUL"

Ascii ==
    (NUL :> 0) @@ (" " :> 32) @@ ("-" :> 45) @@ ("/" :> 47) @@
    ("0" :> 48) @@ ("1" :> 49) @@ ("2" :> 50) @@ ("3" :> 51) @@ ("4" :> 52) @@
    ("5" :> 53) @@ ("6" :> 54) @@ ("7" :> 55) @@ ("8" :> 56) @@ ("9" :> 57) @@
    ("A" :> 65) @@ ("B" :> 66) @@ ("C" :> 67) @@ ("D" :> 68) @@ ("E" :> 69) @@
    ("F" :> 70) @@ ("G" :> 71) @@ ("H" :> 72) @@ ("K" :> 75) @@ ("N" :> 78) @@
    ("P" :> 80) @@ ("Q" :> 81) @@ ("R" :> 82) @@ ("_" :> 95) @@
    ("a" :> 97) @@ ("b" :> 98) @@ ("c" :> 99) @@ ("d" :> 100) @@ ("e" :> 101) @@
    ("f" :> 102) @@ ("g" :> 103) @@ ("h" :> 104) @@ ("k" :> 107) @@
    ("n" :> 110) @@ ("p" :> 112) @@ ("q" :> 113) @@ ("r" :> 114) @@
    ("w" :> 119) @@ ("x" :> 120)

Ord(c) == Ascii[c]

\* c >= lo && c <= hi
InRange(c, lo, hi) == Ord(c) >= Ord(lo) /\ Ord(c) <= Ord(hi)

-----------------------------------------------------------------------------
(* validate_fen.  mem is the memory at and after the pointer handed in:    *)
(* the text, its terminating NUL, and whatever bytes follow it.  p is the  *)
(* pointer (1-based); every read is *fen++.  A read after the last mapped  *)
(* byte faults.  The outcome is [ret, next]: ret is "true", "false" or     *)
(* "fault", next the pointer when the function ended (next - 1 bytes were  *)
(* read).                                                                  *)

Outcome(r, p) == [ret |-> r, next |-> p]

\* validate_fen has not been run
NotRun == Outcome("none", 0)

\* validate_kings with the default rule in every build
validate_kings_default_only(v, wk, bk) == wk = 1 /\ bk = 1

\* template<Variant> validate_kings and its ATOMIC_VARIANT specialisation
validate_kings(v, wk, bk) ==
    IF v = "atomic" THEN wk + bk >= 1 ELSE wk = 1 /\ bk = 1

\* ScanFiles without the last_was_number test
RECURSIVE ScanFiles_adjacent_ok(_, _, _, _, _, _)
ScanFiles_adjacent_ok(mem, p, file, last_was_number, wk, bk) ==
    IF file > 7
    THEN [st |-> "ok", p |-> p, file |-> file, wk |-> wk, bk |-> bk]
    ELSE IF p > Len(mem)
    THEN [st |-> "fault", p |-> p, file |-> file, wk |-> wk, bk |-> bk]
    ELSE LET c == mem[p] IN
         IF InRange(c, "1", "8")
         THEN ScanFiles_adjacent_ok(mem, p + 1, file + (Ord(c) - Ord("1")) + 1,
                                    TRUE, wk, bk)
         ELSE IF c = "k" THEN ScanFiles_adjacent_ok(mem, p + 1, file + 1, FALSE, wk, bk + 1)
         ELSE IF c = "K" THEN ScanFiles_adjacent_ok(mem, p + 1, file + 1, FALSE, wk + 1, bk)
         ELSE IF c \in {"p", "P", "n", "N", "b", "B", "r", "R", "q", "Q"}
         THEN ScanFiles_adjacent_ok(mem, p + 1, file + 1, FALSE, wk, bk)
         ELSE [st |-> "false", p |-> p + 1, file |-> file, wk |-> wk, bk |-> bk]

\* for (; file <= 7; file++) { char c = *fen++; ... }
RECURSIVE ScanFiles(_, _, _, _, _, _)
ScanFiles(mem, p, file, last_was_number, wk, bk) ==
    IF file > 7
    THEN [st |-> "ok", p |-> p, file |-> file, wk |-> wk, bk |-> bk]
    ELSE IF p > Len(mem)
    THEN [st |-> "fault", p |-> p, file |-> file, wk |-> wk, bk |-> bk]
    ELSE LET c == mem[p] IN
         IF InRange(c, "1", "8")
         THEN IF last_was_number
              THEN [st |-> "false", p |-> p + 1, file |-> file, wk |-> wk, bk |-> bk]
              ELSE ScanFiles(mem, p + 1, file + (Ord(c) - Ord("1")) + 1, TRUE, wk, bk)
         ELSE IF c = "k" THEN ScanFiles(mem, p + 1, file + 1, FALSE, wk, bk + 1)
         ELSE IF c = "K" THEN ScanFiles(mem, p + 1, file + 1, FALSE, wk + 1, bk)
         ELSE IF c \in {"p", "P", "n", "N", "b", "B", "r", "R", "q", "Q"}
         THEN ScanFiles(mem, p + 1, file + 1, FALSE, wk, bk)
         ELSE [st |-> "false", p |-> p + 1, file |-> file, wk |-> wk, bk |-> bk]

\* for (int rank = 7; rank >= 0; rank--) { ... }
RECURSIVE ScanBoard(_, _, _, _, _)
ScanBoard(mem, p, rank, wk, bk) ==
    IF rank < 0
    THEN [st |-> "ok", p |-> p, wk |-> wk, bk |-> bk]
    ELSE LET r == ScanFiles(mem, p, 0, FALSE, wk, bk) IN
         IF r.st # "ok" THEN [st |-> r.st, p |-> r.p, wk |-> r.wk, bk |-> r.bk]
         ELSE IF r.file # 8 THEN [st |-> "false", p |-> r.p, wk |-> r.wk, bk |-> r.bk]
         ELSE IF r.p > Len(mem) THEN [st |-> "fault", p |-> r.p, wk |-> r.wk, bk |-> r.bk]
         ELSE LET c == mem[r.p] IN
              IF c = NUL THEN [st |-> "false", p |-> r.p + 1, wk |-> r.wk, bk |-> r.bk]
              ELSE IF rank > 0 /\ c # "/"
              THEN [st |-> "false", p |-> r.p + 1, wk |-> r.wk, bk |-> r.bk]
              ELSE IF rank = 0 /\ c # " "
              THEN [st |-> "false", p |-> r.p + 1, wk |-> r.wk, bk |-> r.bk]
              ELSE ScanBoard(mem, r.p + 1, rank - 1, r.wk, r.bk)

\* 6. Fullmove number:
\*    do { if (c < '0' || c > '9') return false; } while ((c = *fen++) && c != ' ');
\*    if (c) return false; return true;
RECURSIVE FullmoveLoop(_, _, _)
FullmoveLoop(mem, p, c) ==
    IF Ord(c) < Ord("0") \/ Ord(c) > Ord("9") THEN Outcome("false", p)
    ELSE IF p > Len(mem) THEN Outcome("fault", p)
    ELSE LET n == mem[p] IN
         IF n # NUL /\ n # " " THEN FullmoveLoop(mem, p + 1, n)
         ELSE IF n # NUL THEN Outcome("false", p + 1)
         ELSE Outcome("true", p + 1)

ValidateFullmove(mem, p) ==
    IF p > Len(mem) THEN Outcome("fault", p)
    ELSE FullmoveLoop(mem, p + 1, mem[p])

\* 5. Halfmove clock:
\*    do { if (c < '0' && c > '9') return false; } while ((c = *fen++) != ' ');
RECURSIVE HalfmoveLoop(_, _, _)
HalfmoveLoop(mem, p, c) ==
    IF Ord(c) < Ord("0") /\ Ord(c) > Ord("9") THEN Outcome("false", p)
    ELSE IF p > Len(mem) THEN Outcome("fault", p)
    ELSE LET n == mem[p] IN
         IF n # " " THEN HalfmoveLoop(mem, p + 1, n)
         ELSE ValidateFullmove(mem, p + 1)

ValidateHalfmove(mem, p) ==
    IF p > Len(mem) THEN Outcome("fault", p)
    ELSE HalfmoveLoop(mem, p + 1, mem[p])

\* if (*fen++ != ' ') return false;   (the separator after the en-passant field)
AfterEnPassant(mem, p) ==
    IF p > Len(mem) THEN Outcome("fault", p)
    ELSE IF mem[p] # " " THEN Outcome("false", p + 1)
    ELSE ValidateHalfmove(mem, p + 1)

\* 4. En-passant
ValidateEnPassant(mem, p) ==
    IF p > Len(mem) THEN Outcome("fault", p)
    ELSE LET c == mem[p] IN
         IF c # "-"
         THEN IF Ord(c) < Ord("a") \/ Ord(c) > Ord("h") THEN Outcome("false", p + 1)
              ELSE IF p + 1 > Len(mem) THEN Outcome("fault", p + 1)
              ELSE IF mem[p + 1] # "3" /\ mem[p + 1] # "6" THEN Outcome("false", p + 2)
              ELSE AfterEnPassant(mem, p + 2)
         ELSE AfterEnPassant(mem, p + 1)

\* 3. Castling:  do { ... else return false; } while ((c = *fen++) != ' ');
RECURSIVE CastlingLoop(_, _, _)
CastlingLoop(mem, p, c) ==
    IF ~ (\/ InRange(c, "a", "h")
          \/ InRange(c, "A", "H")
          \/ c = "q" \/ c = "Q"
          \/ c = "k" \/ c = "K")
    THEN Outcome("false", p)
    ELSE IF p > Len(mem) THEN Outcome("fault", p)
    ELSE IF mem[p] # " " THEN CastlingLoop(mem, p + 1, mem[p])
    ELSE ValidateEnPassant(mem, p + 1)

ValidateCastling(mem, p) ==
    IF p > Len(mem) THEN Outcome("fault", p)
    ELSE LET c == mem[p] IN
         IF c # "-" THEN CastlingLoop(mem, p + 1, c)
         ELSE IF p + 1 > Len(mem) THEN Outcome("fault", p + 1)
         ELSE IF mem[p + 1] # " " THEN Outcome("false", p + 2)
         ELSE ValidateEnPassant(mem, p + 2)

\* 2. Turn
ValidateTurn(mem, p) ==
    IF p > Len(mem) THEN Outcome("fault", p)
    ELSE LET c == mem[p] IN
         IF c # "w" /\ c # "b" THEN Outcome("false", p + 1)
         ELSE IF p + 1 > Len(mem) THEN Outcome("fault", p + 1)
         ELSE IF mem[p + 1] # " " THEN Outcome("false", p + 2)
         ELSE ValidateCastling(mem, p + 2)

\* bool validate_fen(const char *fen), in the build for variant v
validate_fen(v, mem) ==
    LET b == ScanBoard(mem, 1, 7, 0, 0) IN
    IF b.st # "ok" THEN Outcome(b.st, b.p)
    ELSE IF ~ validate_kings(v, b.wk, b.bk) THEN Outcome("false", b.p)
    ELSE ValidateTurn(mem, b.p)

-----------------------------------------------------------------------------
(* The texts requests carry.                                               *)

\* "7k/8/6K1/8/8/8/8/Q7 w - - 0 1"
FenMateInOne ==
    <<"7","k","/","8","/","6","K","1","/","8","/","8","/","8","/","8","/",
      "Q","7"," ","w"," ","-"," ","-"," ","0"," ","1">>

\* "7k/8/6K1/8/8/8/8/Q7_w_-_-_0_1"
FenUnderscore ==
    <<"7","k","/","8","/","6","K","1","/","8","/","8","/","8","/","8","/",
      "Q","7","_","w","_","-","_","-","_","0","_","1">>

\* "8/8/8/3pP3/8/8/8/K6k b KQ d6 12 34"
FenEnPassant ==
    <<"8","/","8","/","8","/","3","p","P","3","/","8","/","8","/","8","/",
      "K","6","k"," ","b"," ","K","Q"," ","d","6"," ","1","2"," ","3","4">>

\* "8/8/8/8/8/8/8/K7 w - - 0 1"
FenLoneKing ==
    <<"8","/","8","/","8","/","8","/","8","/","8","/","8","/",
      "K","7"," ","w"," ","-"," ","-"," ","0"," ","1">>

\* "7k/8/6K1/8/8/8/8/Q7 w - - 0"   (no fullmove number)
FenNoFullmove ==
    <<"7","k","/","8","/","6","K","1","/","8","/","8","/","8","/","8","/",
      "Q","7"," ","w"," ","-"," ","-"," ","0">>

\* "7k/8/6K1/8/8/8/8/Q52 w - - 0 1"   (two adjacent digits)
FenAdjacentDigits ==
    <<"7","k","/","8","/","6","K","1","/","8","/","8","/","8","/","8","/",
      "Q","5","2"," ","w"," ","-"," ","-"," ","0"," ","1">>

\* "8/8/8/8/8/8/8/8 w - - 0 1"   (no king)
FenNoKing ==
    <<"8","/","8","/","8","/","8","/","8","/","8","/","8","/",
      "8"," ","w"," ","-"," ","-"," ","0"," ","1">>

\* The bytes that follow the terminating NUL of the std::string's buffer:
\* none mapped, bytes that complete the text, bytes that do not.
Tails == { <<>>, <<" ", "1", NUL>>, <<"x", " ", "x", NUL>> }

\* the memory validate_fen scans when handed text.c_str()
Memory(text, tail) == text \o <<NUL>> \o tail

\* std::replace(fen.begin(), fen.end(), '_', ' ')
Normalize(text) == [i \in 1..Len(text) |-> IF text[i] = "_" THEN " " ELSE text[i]]

-----------------------------------------------------------------------------
(* The engine's view of a position, as far as get_api reads it.            *)

\* Piece counts of a position, both colours together; a bishop counts by
\* the colour of its square.
Material(k, p, n, bd, bl, r, q) ==
    [K |-> k, P |-> p, N |-> n, Bdark |-> bd, Blight |-> bl, R |-> r, Q |-> q]

KvK    == Material(2, 0, 0, 0, 0, 0, 0)
KBvK   == Material(2, 0, 0, 1, 0, 0, 0)
KQvK   == Material(2, 0, 0, 0, 0, 0, 1)
KQRvKRP == Material(2, 1, 0, 0, 0, 2, 1)
KQRBvKRNP == Material(2, 1, 1, 0, 1, 2, 1)
LoneK  == Material(1, 0, 0, 0, 0, 0, 0)

\* popcount(pos.pieces())
popcount(mat) == mat.K + mat.P + mat.N + mat.Bdark + mat.Blight + mat.R + mat.Q

\* template<Variant> insufficient_material and its CHESS_VARIANT specialisation
insufficient_material(v, mat) ==
    IF v = "chess"
    THEN IF mat.P > 0 \/ mat.R > 0 \/ mat.Q > 0 THEN FALSE
         ELSE IF mat.N + mat.Bdark + mat.Blight = 1 THEN TRUE
         ELSE IF mat.N > 0 THEN FALSE
         ELSE IF mat.Bdark = 0 THEN TRUE
         ELSE IF mat.Blight = 0 THEN TRUE
         ELSE FALSE
    ELSE popcount(mat) <= 2

\* the halfmove clocks a position after a move may carry
Clocks == {0, 7}

Materials == {KvK, KBvK, KQvK, KQRvKRP, KQRBvKRNP, LoneK}

Opponent(side) == IF side = "w" THEN "b" ELSE "w"

\* The positions do_move may lead to.  applied is the move made on the query
\* position (0: none).  Castling rights need a rook; a king is missing only
\* after an atomic capture; a check that is not mate is drawn only for the
\* largest material.
AfterMove(v, i, mover) ==
    { q \in [applied : {i}, side_to_move : {Opponent(mover)}, num_moves : {0, 3},
             checkers : BOOLEAN, is_atomic_loss : BOOLEAN, material : Materials,
             rule50_count : Clocks, can_castle : BOOLEAN] :
         /\ q.can_castle => q.material.R > 0
         /\ q.is_atomic_loss <=> (q.material = LoneK)
         /\ q.is_atomic_loss => v = "atomic" /\ q.num_moves = 0 /\ ~ q.checkers
         /\ (q.checkers /\ q.num_moves > 0) => q.material = KQRBvKRNP
         /\ (q.checkers /\ q.num_moves = 0) => q.material \in {KQvK, KQRBvKRNP} }

-----------------------------------------------------------------------------
(* MoveInfo and the ranking.                                               *)

\* UCI::move(m, true) of the i-th move of the query position's move list
Ucis ==
    << <<"g","6","h","6">>, <<"a","1","a","8">>, <<"a","1","b","2">>,
       <<"g","6","f","7">>, <<"a","1","a","2">> >>

\* std::string::compare(a, b) < 0
RECURSIVE StrLess(_, _)
StrLess(a, b) ==
    IF b = <<>> THEN FALSE
    ELSE IF a = <<>> THEN TRUE
    ELSE IF Ord(Head(a)) # Ord(Head(b)) THEN Ord(Head(a)) < Ord(Head(b))
    ELSE StrLess(Tail(a), Tail(b))

\* MoveInfo info = {};  dtz_probe, dtm_probed, dtm_mater and rendered_on are
\* not fields of the struct: they record whether Tablebases::probe_dtz was
\* called for the record and how it ended, whether probe_dtm was called,
\* the side tb_probe_hard reported as mating ("none" unless the probe
\* succeeded), and the moves applied to pos when uci and san were rendered.
NewMoveInfo ==
    [uci |-> <<>>, san |-> <<>>,
     insufficient_material |-> FALSE, checkmate |-> FALSE,
     stalemate |-> FALSE, zeroing |-> FALSE,
     has_wdl |-> FALSE, wdl |-> 0,
     has_dtz |-> FALSE, dtz |-> 0,
     has_dtm |-> FALSE, dtm |-> 0,
     dtz_probe |-> "none", dtm_probed |-> FALSE, dtm_mater |-> "none",
     rendered_on |-> 0]

\* bool compare_move_info(const MoveInfo &a, const MoveInfo &b)
compare_move_info(a, b) ==
    IF a.has_dtz # b.has_dtz THEN b.has_dtz
    ELSE IF a.has_wdl # b.has_wdl THEN b.has_wdl
    ELSE IF a.has_wdl /\ b.has_wdl /\ a.wdl # b.wdl THEN a.wdl < b.wdl
    ELSE IF a.checkmate # b.checkmate THEN a.checkmate
    ELSE IF a.stalemate # b.stalemate THEN a.stalemate
    ELSE IF a.insufficient_material # b.insufficient_material
    THEN a.insufficient_material
    ELSE IF a.has_dtm /\ b.has_dtm /\ b.dtm # a.dtm THEN b.dtm < a.dtm
    ELSE IF a.has_wdl /\ b.has_wdl /\ a.wdl < 0 /\ b.zeroing # a.zeroing
    THEN a.zeroing
    ELSE IF a.has_wdl /\ b.has_wdl /\ a.wdl > 0 /\ a.zeroing # b.zeroing
    THEN b.zeroing
    ELSE IF a.has_dtz /\ b.has_dtz /\ a.dtz # b.dtz THEN b.dtz < a.dtz
    ELSE StrLess(a.uci, b.uci)

\* WdlOfDtz counting the halfmove clock towards the hundred plies
WdlOfDtz_clock_aware(dtz, rule50_count) ==
    IF dtz < 0 /\ dtz - rule50_count < -100 THEN -1
    ELSE IF dtz > 0 /\ dtz + rule50_count > 100 THEN 1
    ELSE IF dtz < 0 THEN -2
    ELSE IF dtz > 0 THEN 2
    ELSE 0

\* WdlOfDtz with the thresholds at -100 and 100 inclusive
WdlOfDtz_inclusive(dtz, rule50_count) ==
    IF dtz <= -100 /\ dtz - rule50_count <= -100 THEN -1
    ELSE IF dtz >= 100 /\ dtz + rule50_count >= -100 THEN 1
    ELSE IF dtz < 0 THEN -2
    ELSE IF dtz > 0 THEN 2
    ELSE 0

\* the wdl get_api derives from a probed dtz and pos.rule50_count()
WdlOfDtz(dtz, rule50_count) ==
    IF dtz < -100 /\ dtz - rule50_count <= -100 THEN -1
    ELSE IF dtz > 100 /\ dtz + rule50_count >= -100 THEN 1
    ELSE IF dtz < 0 THEN -2
    ELSE IF dtz > 0 THEN 2
    ELSE 0

\* IsCheckmate without the legals.size() == 0 test
IsCheckmate_any_check(v, num_moves, q) ==
    IF v = "atomic" THEN q.checkers \/ q.is_atomic_loss ELSE q.checkers

\* the checkmate test of get_api, on the query position and after a move
IsCheckmate(v, num_moves, q) ==
    IF v = "atomic"
    THEN num_moves = 0 /\ (q.checkers \/ q.is_atomic_loss)
    ELSE num_moves = 0 /\ q.checkers

\* Classify probing whatever the castling rights
Classify_probe_with_castling(v, card, query_checkmate, inf, q) ==
    LET num_moves == q.num_moves
        cm == IsCheckmate(v, num_moves, q)
        flagged ==
            [inf EXCEPT !.checkmate = cm,
                        !.stalemate = (num_moves = 0 /\ ~ query_checkmate),
                        !.insufficient_material = insufficient_material(v, q.material),
                        !.zeroing = (q.rule50_count = 0),
                        !.san = IF cm THEN Append(inf.san, "#")
                                ELSE IF q.checkers THEN Append(inf.san, "+")
                                ELSE inf.san]
    IN  IF flagged.checkmate
        THEN [flagged EXCEPT !.has_wdl = TRUE, !.wdl = -2,
                             !.has_dtm = TRUE, !.dtm = 0]
        ELSE IF flagged.stalemate \/ flagged.insufficient_material
        THEN [flagged EXCEPT !.has_wdl = TRUE, !.wdl = 0]
        ELSE IF popcount(q.material) <= card
        THEN [flagged EXCEPT !.dtz_probe = "pending"]
        ELSE [flagged EXCEPT !.has_wdl = FALSE]

\* The loop body of get_api from do_move to the outcome assembly's probe:
\* the flags, the san suffix, and the outcome where no probe is needed.
\* query_checkmate is get_api's own bool checkmate.
Classify(v, card, query_checkmate, inf, q) ==
    LET num_moves == q.num_moves
        cm == IsCheckmate(v, num_moves, q)
        flagged ==
            [inf EXCEPT !.checkmate = cm,
                        !.stalemate = (num_moves = 0 /\ ~ query_checkmate),
                        !.insufficient_material = insufficient_material(v, q.material),
                        !.zeroing = (q.rule50_count = 0),
                        !.san = IF cm THEN Append(inf.san, "#")
                                ELSE IF q.checkers THEN Append(inf.san, "+")
                                ELSE inf.san]
    IN  IF flagged.checkmate
        THEN [flagged EXCEPT !.has_wdl = TRUE, !.wdl = -2,
                             !.has_dtm = TRUE, !.dtm = 0]
        ELSE IF flagged.stalemate \/ flagged.insufficient_material
        THEN [flagged EXCEPT !.has_wdl = TRUE, !.wdl = 0]
        ELSE IF ~ q.can_castle /\ popcount(q.material) <= card
        THEN [flagged EXCEPT !.dtz_probe = "pending"]
        ELSE [flagged EXCEPT !.has_wdl = FALSE]

\* AfterProbeDtz deriving a wdl from the value a failed probe returned
AfterProbeDtz_wdl_on_fail(inf, q, state, dtz) ==
    [inf EXCEPT !.dtz = dtz, !.has_dtz = (state # "FAIL"),
                !.dtz_probe = IF state # "FAIL" THEN "ok" ELSE "failed",
                !.has_wdl = TRUE, !.wdl = WdlOfDtz(dtz, q.rule50_count)]

\* Tablebases::probe_dtz returned dtz with ProbeState state
AfterProbeDtz(inf, q, state, dtz) ==
    LET probed == [inf EXCEPT !.dtz = dtz, !.has_dtz = (state # "FAIL")] IN
    IF ~ probed.has_dtz
    THEN [probed EXCEPT !.dtz_probe = "failed"]
    ELSE [probed EXCEPT !.dtz_probe = "ok", !.has_wdl = TRUE,
                        !.wdl = WdlOfDtz(dtz, q.rule50_count)]

\* What tb_probe_hard may report: available, info, plies_to_mate.  The two
\* tablebases agree on who wins: after a dtz > 0 the side to move mates,
\* after a dtz < 0 its opponent does, after a dtz = 0 nobody does.
TbInfos == {"tb_DRAW", "tb_WMATE", "tb_BMATE", "tb_UNKNOWN", "tb_FORBID"}
Plies == {2, 4}
TbAnswers(q, dtz) ==
    { tb \in [available : BOOLEAN, info : TbInfos, plies_to_mate : Plies] :
        LET mater == IF tb.info = "tb_WMATE" THEN "w" ELSE "b" IN
        (tb.available /\ tb.info \in {"tb_WMATE", "tb_BMATE"}) =>
            \/ dtz > 0 /\ mater = q.side_to_move
            \/ dtz < 0 /\ mater # q.side_to_move }

\* probe_dtm returning the distance with the opposite sign
probe_dtm_flipped(v, q, tb) ==
    IF insufficient_material(v, q.material) THEN [success |-> FALSE, dtm |-> 0]
    ELSE IF popcount(q.material) > 5 THEN [success |-> FALSE, dtm |-> 0]
    ELSE IF q.can_castle THEN [success |-> FALSE, dtm |-> 0]
    ELSE IF ~ tb.available \/ tb.info = "tb_FORBID" \/ tb.info = "tb_UNKNOWN"
    THEN [success |-> FALSE, dtm |-> 0]
    ELSE IF tb.info = "tb_DRAW" THEN [success |-> FALSE, dtm |-> 0]
    ELSE IF tb.info = "tb_WMATE" /\ q.side_to_move = "w"
    THEN [success |-> TRUE, dtm |-> - tb.plies_to_mate]
    ELSE IF tb.info = "tb_BMATE" /\ q.side_to_move = "b"
    THEN [success |-> TRUE, dtm |-> - tb.plies_to_mate]
    ELSE [success |-> TRUE, dtm |-> tb.plies_to_mate]

\* int probe_dtm(const Position &pos, bool *success), tb the backend's answer
probe_dtm(v, q, tb) ==
    IF insufficient_material(v, q.material) THEN [success |-> FALSE, dtm |-> 0]
    ELSE IF popcount(q.material) > 5 THEN [success |-> FALSE, dtm |-> 0]
    ELSE IF q.can_castle THEN [success |-> FALSE, dtm |-> 0]
    ELSE IF ~ tb.available \/ tb.info = "tb_FORBID" \/ tb.info = "tb_UNKNOWN"
    THEN [success |-> FALSE, dtm |-> 0]
    ELSE IF tb.info = "tb_DRAW" THEN [success |-> FALSE, dtm |-> 0]
    ELSE IF tb.info = "tb_WMATE" /\ q.side_to_move = "w"
    THEN [success |-> TRUE, dtm |-> tb.plies_to_mate]
    ELSE IF tb.info = "tb_BMATE" /\ q.side_to_move = "b"
    THEN [success |-> TRUE, dtm |-> tb.plies_to_mate]
    ELSE [success |-> TRUE, dtm |-> - tb.plies_to_mate]

\* info.dtm = probe_dtm(pos, &info.has_dtm);
AfterProbeDtm(v, inf, q, tb) ==
    LET r == probe_dtm(v, q, tb) IN
    [inf EXCEPT !.dtm = r.dtm, !.has_dtm = r.success, !.dtm_probed = TRUE,
                !.dtm_mater = IF ~ r.success THEN "none"
                              ELSE IF tb.info = "tb_WMATE" THEN "w" ELSE "b"]

-----------------------------------------------------------------------------
(* sort(move_infos.begin(), move_infos.end(), compare_move_info) and the   *)
(* serialisation of the sorted records.                                    *)

Injections(n) == { f \in [1..n -> 1..n] : \A i, j \in 1..n : f[i] = f[j] => i = j }

Permutations_of(seq) ==
    { [i \in 1..Len(seq) |-> seq[f[i]]] : f \in Injections(Len(seq)) }

\* what std::sort requires of its comparator, on the records it is handed
StrictWeakOn(seq) ==
    LET I == 1..Len(seq) IN
    /\ \A i \in I : ~ compare_move_info(seq[i], seq[i])
    /\ \A i, j \in I : compare_move_info(seq[i], seq[j]) => ~ compare_move_info(seq[j], seq[i])
    /\ \A i, j, k \in I :
          compare_move_info(seq[i], seq[j]) /\ compare_move_info(seq[j], seq[k])
             => compare_move_info(seq[i], seq[k])
    /\ \A i, j, k \in I :
          (/\ ~ compare_move_info(seq[i], seq[j]) /\ ~ compare_move_info(seq[j], seq[i])
           /\ ~ compare_move_info(seq[j], seq[k]) /\ ~ compare_move_info(seq[k], seq[j]))
             => ~ compare_move_info(seq[i], seq[k]) /\ ~ compare_move_info(seq[k], seq[i])

IsSorted(seq) ==
    \A i, j \in 1..Len(seq) : i < j => ~ compare_move_info(seq[j], seq[i])

\* The orders std::sort may leave the records in: the sorted ones when the
\* comparator is a strict weak ordering on them; otherwise the call's
\* behaviour is undefined and any order of the records may come out.
SortOutcomes(seq) ==
    IF StrictWeakOn(seq)
    THEN { s \in Permutations_of(seq) : IsSorted(s) }
    ELSE Permutations_of(seq)

\* a JSON value that is a number or null: <<n>> or <<>>
Null == <<>>
Number(n) == <<n>>

\* one move object of the response (lines 495-509)
MoveJson(r) ==
    LET base == [uci |-> r.uci, san |-> r.san, checkmate |-> r.checkmate,
                 stalemate |-> r.stalemate,
                 insufficient_material |-> r.insufficient_material,
                 zeroing |-> r.zeroing,
                 wdl |-> IF r.has_wdl THEN Number(r.wdl) ELSE Null,
                 dtz |-> IF r.has_dtz THEN Number(r.dtz) ELSE Null]
    IN  IF r.has_dtm THEN base @@ [dtm |-> Number(r.dtm)] ELSE base

NoParam == <<"nullptr">>

\* jsonp && strlen(jsonp)
HasCallback(r) == r.callback # NoParam /\ r.callback # <<>>

\* evhttp_send_error(req, HTTP_BADREQUEST, reason)
ErrorReply(reason) == [code |-> 400, reason |-> reason]

\* evhttp_send_reply(req, HTTP_OK, "OK", res)
OkReply(r, query_checkmate, n_legals, sorted) ==
    [code |-> 200,
     content_type |-> IF HasCallback(r) THEN "application/javascript"
                      ELSE "application/json",
     callback |-> IF HasCallback(r) THEN r.callback ELSE NoParam,
     checkmate |-> query_checkmate,
     stalemate |-> (n_legals = 0 /\ ~ query_checkmate),
     moves |-> [i \in 1..Len(sorted) |-> MoveJson(sorted[i])]]

-----------------------------------------------------------------------------
(* The server: get_api, one request at a time (evhttp's event loop).       *)

\* most legal moves the engine reports for a query position
MaxMoves == 2

Variants == {"chess", "atomic"}
Cardinalities == {6}
ProbeStates == {"FAIL", "OK", "ZEROING_BEST_MOVE"}
DtzValues == {-101, -1, 0, 1}

Request(uri_ok, query_ok, text, callback, tail) ==
    [uri_ok |-> uri_ok, query_ok |-> query_ok, fen |-> text,
     callback |-> callback, tail |-> tail]

Requests ==
    { Request(FALSE, TRUE, NoParam, NoParam, <<>>),
      Request(TRUE, FALSE, FenMateInOne, NoParam, <<>>),
      Request(TRUE, TRUE, NoParam, <<"c", "b">>, <<>>),
      Request(TRUE, TRUE, <<>>, NoParam, <<>>),
      Request(TRUE, TRUE, FenAdjacentDigits, NoParam, <<>>),
      Request(TRUE, TRUE, FenMateInOne, NoParam, <<>>),
      Request(TRUE, TRUE, FenUnderscore, <<"c", "b">>, <<>>),
      Request(TRUE, TRUE, FenLoneKing, <<>>, <<>>) }
    \cup { Request(TRUE, TRUE, FenNoFullmove, NoParam, t) : t \in Tails }

NoRequest == Request(FALSE, FALSE, NoParam, NoParam, <<>>)

Call(op, arg, ret) == [op |-> op, arg |-> arg, ret |-> ret]

\* the position on top of the StateInfo chain
Top(stack) == stack[Len(stack)]

\* the side to move Position::set reads from the second field
RECURSIVE TurnOf(_)
TurnOf(text) ==
    IF text = <<>> THEN "w"
    ELSE IF Head(text) = " " /\ Len(text) > 1 THEN text[2]
    ELSE TurnOf(Tail(text))

Init ==
    /\ variant \in Variants
    /\ gaviota \in BOOLEAN
    /\ gaviota => variant = "chess"
    /\ MaxCardinality \in Cardinalities
    /\ pc = "idle"
    /\ req = NoRequest
    /\ fen = <<>>
    /\ calls = <<>>
    /\ pos = <<>>
    /\ legals = 0
    /\ checkmate = FALSE
    /\ m = 0
    /\ info = NewMoveInfo
    /\ move_infos = <<>>
    /\ replies = <<>>
    /\ v_in = [text |-> <<>>, tail |-> <<>>]
    /\ v_out = NotRun

\* evhttp hands the next request to get_api
Accept(r) ==
    /\ pc = "idle"
    /\ pc' = "get_api"
    /\ req' = r
    /\ fen' = <<>>
    /\ calls' = <<>>
    /\ pos' = <<>>
    /\ legals' = 0
    /\ checkmate' = FALSE
    /\ m' = 0
    /\ info' = NewMoveInfo
    /\ move_infos' = <<>>
    /\ replies' = <<>>
    /\ UNCHANGED <<buildVars, validateVars>>

\* lines 358-382: the uri, the query, "Missing FEN", std::replace
GetApiQuery ==
    /\ pc = "get_api"
    /\ LET c_fen == IF req.query_ok THEN req.fen ELSE NoParam IN
       IF ~ req.uri_ok
       THEN /\ pc' = "idle"
            /\ UNCHANGED <<fen, replies>>
       ELSE IF c_fen = NoParam \/ c_fen = <<>>
       THEN /\ replies' = Append(replies, ErrorReply("Missing FEN"))
            /\ pc' = "idle"
            /\ UNCHANGED fen
       ELSE /\ fen' = Normalize(c_fen)
            /\ pc' = "validate"
            /\ UNCHANGED replies
    /\ UNCHANGED <<buildVars, validateVars, req, calls, pos, legals, checkmate,
                   m, info, move_infos>>

\* GetApiValidate without the return after "Invalid FEN"
GetApiValidate_no_return ==
    /\ pc = "validate"
    /\ LET out == validate_fen(variant, Memory(fen, req.tail)) IN
       /\ calls' = Append(calls, Call("validate_fen", fen, out.ret))
       /\ IF out.ret = "fault"
          THEN /\ pc' = "crashed"
               /\ UNCHANGED replies
          ELSE IF out.ret = "false"
          THEN /\ replies' = Append(replies, ErrorReply("Invalid FEN"))
               /\ pc' = "parse"
          ELSE /\ pc' = "parse"
               /\ UNCHANGED replies
    /\ UNCHANGED <<buildVars, validateVars, req, fen, pos, legals, checkmate,
                   m, info, move_infos>>

\* lines 384-387: validate_fen(fen.c_str()) and "Invalid FEN"
GetApiValidate ==
    /\ pc = "validate"
    /\ LET out == validate_fen(variant, Memory(fen, req.tail)) IN
       /\ calls' = Append(calls, Call("validate_fen", fen, out.ret))
       /\ IF out.ret = "fault"
          THEN /\ pc' = "crashed"
               /\ UNCHANGED replies
          ELSE IF out.ret = "false"
          THEN /\ replies' = Append(replies, ErrorReply("Invalid FEN"))
               /\ pc' = "idle"
          ELSE /\ pc' = "parse"
               /\ UNCHANGED replies
    /\ UNCHANGED <<buildVars, validateVars, req, fen, pos, legals, checkmate,
                   m, info, move_infos>>

\* the query positions Position::set may build from a text
QueryPositions(v, text) ==
    { q \in [applied : {0}, side_to_move : {TurnOf(text)}, num_moves : 0..MaxMoves,
             checkers : BOOLEAN, is_atomic_loss : BOOLEAN] :
         /\ q.is_atomic_loss => v = "atomic" /\ q.num_moves = 0 /\ ~ q.checkers
         /\ q.checkers => q.num_moves <= 1 }

\* lines 393-426: pos.set, pos_is_ok and "Illegal FEN", MoveList<LEGAL>(pos),
\* bool checkmate
GetApiParse ==
    /\ pc = "parse"
    /\ \E ok \in BOOLEAN, q \in QueryPositions(variant, fen) :
          /\ pos' = <<q>>
          /\ IF ~ ok
             THEN /\ calls' = calls \o <<Call("Position::set", fen, "void"),
                                         Call("pos_is_ok", 0, FALSE)>>
                  /\ replies' = Append(replies, ErrorReply("Illegal FEN"))
                  /\ pc' = "idle"
                  /\ UNCHANGED <<legals, checkmate, m>>
             ELSE /\ calls' = calls \o <<Call("Position::set", fen, "void"),
                                         Call("pos_is_ok", 0, TRUE),
                                         Call("MoveList", 0, q.num_moves)>>
                  /\ legals' = q.num_moves
                  /\ checkmate' = IsCheckmate(variant, q.num_moves, q)
                  /\ m' = 1
                  /\ pc' = "loop"
                  /\ UNCHANGED replies
    /\ UNCHANGED <<buildVars, validateVars, req, fen, info, move_infos>>

\* lines 436-463, 481-483: render the move, do_move, classify
DoMove ==
    /\ pc = "loop"
    /\ m <= legals
    /\ \E q \in AfterMove(variant, m, Top(pos).side_to_move) :
          LET rendered == [NewMoveInfo EXCEPT !.uci = Ucis[m], !.san = Ucis[m],
                                              !.rendered_on = Top(pos).applied]
              inf == Classify(variant, MaxCardinality, checkmate, rendered, q)
          IN  /\ pos' = Append(pos, q)
              /\ info' = inf
              /\ calls' = calls \o <<Call("do_move", m, "void"),
                                     Call("MoveList", m, q.num_moves)>>
              /\ pc' = IF inf.dtz_probe = "pending" THEN "probe_dtz" ELSE "push"
    /\ UNCHANGED <<buildVars, validateVars, req, fen, legals, checkmate, m,
                   move_infos, replies>>

\* ProbeDtz going on to probe_dtm whatever the DTZ probe's state
ProbeDtz_always_dtm ==
    /\ pc = "probe_dtz"
    /\ \E state \in ProbeStates, dtz \in DtzValues :
          /\ state = "FAIL" => dtz = 0
          /\ info' = AfterProbeDtz(info, Top(pos), state, dtz)
          /\ calls' = Append(calls, Call("probe_dtz", m, state # "FAIL"))
          /\ pc' = IF gaviota THEN "probe_dtm" ELSE "push"
    /\ UNCHANGED <<buildVars, validateVars, req, fen, pos, legals, checkmate, m,
                   move_infos, replies>>

\* lines 464-476: Tablebases::probe_dtz and the wdl it gives
ProbeDtz ==
    /\ pc = "probe_dtz"
    /\ \E state \in ProbeStates, dtz \in DtzValues :
          /\ state = "FAIL" => dtz = 0
          /\ info' = AfterProbeDtz(info, Top(pos), state, dtz)
          /\ calls' = Append(calls, Call("probe_dtz", m, state # "FAIL"))
          /\ pc' = IF state # "FAIL" /\ gaviota THEN "probe_dtm" ELSE "push"
    /\ UNCHANGED <<buildVars, validateVars, req, fen, pos, legals, checkmate, m,
                   move_infos, replies>>

\* lines 477-479: probe_dtm, in a build with GAVIOTA
ProbeDtm ==
    /\ pc = "probe_dtm"
    /\ \E tb \in TbAnswers(Top(pos), info.dtz) :
          /\ info' = AfterProbeDtm(variant, info, Top(pos), tb)
          /\ calls' = Append(calls, Call("probe_dtm", m, info'.has_dtm))
    /\ pc' = "push"
    /\ UNCHANGED <<buildVars, validateVars, req, fen, pos, legals, checkmate, m,
                   move_infos, replies>>

\* undo_move that leaves the move applied
undo_move_skipped(stack) == stack

\* pos.undo_move(m)
undo_move(stack) == SubSeq(stack, 1, Len(stack) - 1)

\* lines 485-487: move_infos.push_back(info); pos.undo_move(m)
PushUndo ==
    /\ pc = "push"
    /\ move_infos' = Append(move_infos, info)
    /\ pos' = undo_move(pos)
    /\ calls' = Append(calls, Call("undo_move", m, "void"))
    /\ m' = m + 1
    /\ pc' = "loop"
    /\ UNCHANGED <<buildVars, validateVars, req, fen, legals, checkmate, info,
                   replies>>

\* lines 490-522: sort, serialise, evhttp_send_reply
SortReply ==
    /\ pc = "loop"
    /\ m > legals
    /\ \E sorted \in SortOutcomes(move_infos) :
          /\ move_infos' = sorted
          /\ replies' = Append(replies, OkReply(req, checkmate, legals, sorted))
    /\ calls' = Append(calls, Call("sort", Len(move_infos), "void"))
    /\ pc' = "idle"
    /\ UNCHANGED <<buildVars, validateVars, req, fen, pos, legals, checkmate, m,
                   info>>

Next ==
    \/ \E r \in Requests : Accept(r)
    \/ GetApiQuery
    \/ GetApiValidate
    \/ GetApiParse
    \/ DoMove
    \/ ProbeDtz
    \/ ProbeDtm
    \/ PushUndo
    \/ SortReply

Spec == Init /\ [][Next]_vars

-----------------------------------------------------------------------------
(* validate_fen on its own: a text and the bytes after its NUL are drawn,  *)
(* and the function is run on them.                                        *)

\* text with its i-th character replaced by c
Substitute(text, i, c) == [text EXCEPT ![i] = c]

\* text without its i-th character
Delete(text, i) == SubSeq(text, 1, i - 1) \o SubSeq(text, i + 1, Len(text))

Prefixes(text) == { SubSeq(text, 1, n) : n \in 0..Len(text) }

Substitutes == {" ", "/", "-", "0", "1", "8", "9", "k", "w", "x"}

ValidateTexts ==
    {FenMateInOne, FenEnPassant, FenLoneKing, FenNoFullmove, FenAdjacentDigits,
     FenNoKing}
    \cup Prefixes(FenMateInOne) \cup Prefixes(FenEnPassant)
    \cup { Substitute(FenMateInOne, i, c) : i \in 1..Len(FenMateInOne), c \in Substitutes }
    \cup { Delete(FenEnPassant, i) : i \in 1..Len(FenEnPassant) }

InitValidate ==
    /\ variant \in Variants
    /\ gaviota = FALSE
    /\ MaxCardinality \in Cardinalities
    /\ pc = "idle"
    /\ req = NoRequest
    /\ fen = <<>>
    /\ calls = <<>>
    /\ pos = <<>>
    /\ legals = 0
    /\ checkmate = FALSE
    /\ m = 0
    /\ info = NewMoveInfo
    /\ move_infos = <<>>
    /\ replies = <<>>
    /\ v_in \in [text : ValidateTexts, tail : Tails]
    /\ v_out = NotRun

RunValidate ==
    /\ v_out = NotRun
    /\ v_out' = validate_fen(variant, Memory(v_in.text, v_in.tail))
    /\ UNCHANGED <<buildVars, serverVars, v_in>>

NextValidate == RunValidate

SpecValidate == InitValidate /\ [][NextValidate]_vars

-----------------------------------------------------------------------------
(* compare_move_info on its own: three records that get_api can produce    *)
(* for three moves of one query position are drawn into move_infos.        *)

\* the records the loop body of get_api may build for move i: the position
\* q the move leads to, then the backends' answers where they are asked
EvalRecords(v, g, card, i) ==
    LET rendered == [NewMoveInfo EXCEPT !.uci = Ucis[i], !.san = Ucis[i]]
        WithDtm(d, q) ==
            IF d.has_dtz /\ g
            THEN { AfterProbeDtm(v, d, q, tb) : tb \in TbAnswers(q, d.dtz) }
            ELSE {d}
        WithDtz(c, q) ==
            IF c.dtz_probe # "pending" THEN {c}
            ELSE UNION { WithDtm(AfterProbeDtz(c, q, x[1], x[2]), q) :
                           x \in { y \in ProbeStates \X DtzValues :
                                     y[1] = "FAIL" => y[2] = 0 } }
    IN  UNION { WithDtz(Classify(v, card, FALSE, rendered, q), q) :
                  q \in AfterMove(v, i, "w") }

InitCompare ==
    /\ variant \in Variants
    /\ gaviota \in BOOLEAN
    /\ gaviota => variant = "chess"
    /\ MaxCardinality \in Cardinalities
    /\ pc = "idle"
    /\ req = NoRequest
    /\ fen = <<>>
    /\ calls = <<>>
    /\ pos = <<>>
    /\ legals = 0
    /\ checkmate = FALSE
    /\ m = 0
    /\ info = NewMoveInfo
    /\ move_infos = <<>>
    /\ replies = <<>>
    /\ v_in = [text |-> <<>>, tail |-> <<>>]
    /\ v_out = NotRun

\* the record of the next of the three moves
DrawRecord ==
    /\ Len(move_infos) < 3
    /\ \E r \in EvalRecords(variant, gaviota, MaxCardinality, Len(move_infos) + 1) :
          move_infos' = Append(move_infos, r)
    /\ UNCHANGED <<buildVars, validateVars, pc, req, fen, calls, pos, legals,
                   checkmate, m, info, replies>>

NextCompare == DrawRecord

SpecCompare == InitCompare /\ [][NextCompare]_vars

-----------------------------------------------------------------------------
(* The probe branch on its own: a position after a move that get_api       *)
(* probes, with any halfmove clock, and any dtz the tablebase may return.  *)

\* largest |dtz| and largest halfmove clock drawn
MaxDtz == 103
MaxClock == 101

\* a position after move 1 that is not terminal, has no castling rights and
\* few enough pieces: the probe branch is taken
ProbedPosition(c) ==
    [applied |-> 1, side_to_move |-> "b", num_moves |-> 3, checkers |-> FALSE,
     is_atomic_loss |-> FALSE, material |-> KQvK, rule50_count |-> c,
     can_castle |-> FALSE]

InitWdl ==
    /\ variant \in Variants
    /\ gaviota = FALSE
    /\ MaxCardinality \in Cardinalities
    /\ pc = "probe_dtz"
    /\ req = Request(TRUE, TRUE, FenMateInOne, NoParam, <<>>)
    /\ fen = FenMateInOne
    /\ calls = <<>>
    /\ \E c \in 0..MaxClock :
          /\ pos = << [applied |-> 0, side_to_move |-> "w", num_moves |-> 1,
                       checkers |-> FALSE, is_atomic_loss |-> FALSE],
                     ProbedPosition(c) >>
          /\ info = Classify(variant, MaxCardinality, FALSE,
                             [NewMoveInfo EXCEPT !.uci = Ucis[1], !.san = Ucis[1]],
                             ProbedPosition(c))
    /\ legals = 1
    /\ checkmate = FALSE
    /\ m = 1
    /\ move_infos = <<>>
    /\ replies = <<>>
    /\ v_in = [text |-> <<>>, tail |-> <<>>]
    /\ v_out = NotRun

\* lines 464-476 with any dtz in -MaxDtz..MaxDtz
ProbeDtzWide ==
    /\ pc = "probe_dtz"
    /\ \E state \in ProbeStates, dtz \in (-MaxDtz)..MaxDtz :
          /\ state = "FAIL" => dtz = 0
          /\ info' = AfterProbeDtz(info, Top(pos), state, dtz)
          /\ calls' = Append(calls, Call("probe_dtz", m, state # "FAIL"))
          /\ pc' = IF state # "FAIL" /\ gaviota THEN "probe_dtm" ELSE "push"
    /\ UNCHANGED <<buildVars, validateVars, req, fen, pos, legals, checkmate, m,
                   move_infos, replies>>

NextWdl == ProbeDtzWide

SpecWdl == InitWdl /\ [][NextWdl]_vars

-----------------------------------------------------------------------------
(* Properties.                                                             *)

\* the request was answered 200 and get_api has returned
Answered == pc = "idle" /\ Len(replies) = 1 /\ replies[1].code = 200

\* the calls of this request that reach the engine or a tablebase
EngineOps == {"Position::set", "pos_is_ok", "MoveList", "do_move", "undo_move",
              "probe_dtz", "probe_dtm"}

\* the records built so far for this request, the one under construction
\* included once its outcome is assembled
Records ==
    { move_infos[i] : i \in 1..Len(move_infos) }
    \cup (IF pc = "push" THEN {info} ELSE {})

\* the position after a move is checkmate, stalemate or insufficient material
Terminal(q) == q.num_moves = 0 \/ insufficient_material(variant, q.material)

(* C1: Position::set is invoked only after validate_fen returned true on   *)
(* the underscore-normalized fen text; when validate_fen returns false the *)
(* request is answered 400 "Invalid FEN" and neither the parser, the move  *)
(* enumeration nor a probe is invoked for it.                              *)
C1_ParserOnlyAfterValidation ==
    /\ \A i \in 1..Len(calls) :
          calls[i].op \in EngineOps =>
             /\ calls[1].op = "validate_fen"
             /\ calls[1].ret = "true"
             /\ calls[1].arg = [k \in 1..Len(req.fen) |->
                                  IF req.fen[k] = "_" THEN " " ELSE req.fen[k]]
    /\ (Len(calls) >= 1 /\ calls[1].op = "validate_fen" /\ calls[1].ret = "false") =>
          /\ Len(calls) = 1
          /\ pc = "idle"
          /\ replies = <<ErrorReply("Invalid FEN")>>

\* the parser ran on a text that carried underscores
C1_Witness ==
    /\ \E i \in 1..Len(calls) : calls[i].op = "Position::set"
    /\ \E k \in 1..Len(req.fen) : req.fen[k] = "_"

(* C2: input errors are reported in a fixed precedence and never crash the *)
(* server: a missing or empty fen gives 400 "Missing FEN"; otherwise a fen *)
(* validate_fen rejects gives 400 "Invalid FEN"; otherwise a position that *)
(* is not pos_is_ok gives 400 "Illegal FEN".  On each path exactly one     *)
(* reply is sent, no move is evaluated, and the server is back waiting for *)
(* the next request.                                                       *)
C2_InputErrorsRecovered ==
    /\ pc # "crashed"
    /\ (pc = "idle" /\ req.uri_ok) =>
          LET c_fen == IF req.query_ok THEN req.fen ELSE NoParam
              missing == c_fen = NoParam \/ c_fen = <<>>
              invalid == Len(calls) >= 1 /\ calls[1].op = "validate_fen"
                           /\ calls[1].ret = "false"
              illegal == \E i \in 1..Len(calls) :
                            calls[i].op = "pos_is_ok" /\ calls[i].ret = FALSE
              evaluated == \E i \in 1..Len(calls) : calls[i].op = "do_move"
          IN  /\ missing => replies = <<ErrorReply("Missing FEN")>> /\ calls = <<>>
              /\ (~ missing /\ invalid) =>
                    replies = <<ErrorReply("Invalid FEN")>> /\ ~ evaluated
              /\ (~ missing /\ ~ invalid /\ illegal) =>
                    replies = <<ErrorReply("Illegal FEN")>> /\ ~ evaluated

(* C3: in no MoveInfo record are checkmate and stalemate both true:        *)
(* stalemate is true exactly when the position after the move has no legal *)
(* move and the record's own checkmate flag is false.                      *)
C3_StalemateExcludesCheckmate ==
    /\ \A r \in Records : ~ (r.checkmate /\ r.stalemate)
    /\ pc = "push" =>
          (info.stalemate <=> (Top(pos).num_moves = 0 /\ ~ info.checkmate))

(* C4: compare_move_info is a strict weak ordering on the records of one   *)
(* request, records with and without dtm mixed: irreflexive, exactly one   *)
(* of compare(a, b) and compare(b, a) for records of different uci, and    *)
(* transitive.                                                             *)
C4_StrictWeakOrdering ==
    LET I == 1..Len(move_infos)
        lt(i, j) == compare_move_info(move_infos[i], move_infos[j])
    IN  /\ \A i \in I : ~ lt(i, i)
        /\ \A i, j \in I :
              move_infos[i].uci # move_infos[j].uci => (lt(i, j) <=> ~ lt(j, i))
        /\ \A i, j, k \in I : lt(i, j) /\ lt(j, k) => lt(i, k)

(* C5: when some legal move of the query position delivers checkmate, the  *)
(* first record of the ranked list has checkmate = true and wdl = -2.      *)
C5_CheckmateRankedFirst ==
    (Answered /\ \E i \in 1..Len(move_infos) : move_infos[i].checkmate) =>
        /\ move_infos[1].checkmate
        /\ move_infos[1].has_wdl
        /\ move_infos[1].wdl = -2
        /\ replies[1].moves[1].checkmate
        /\ replies[1].moves[1].wdl = Number(-2)

\* a text has six space-separated fields, none of them empty
NumSpaces(text) == Cardinality({ i \in 1..Len(text) : text[i] = " " })
HasSixFields(text) ==
    /\ NumSpaces(text) = 5
    /\ Len(text) >= 1 /\ text[1] # " " /\ text[Len(text)] # " "
    /\ \A i \in 1..(Len(text) - 1) : ~ (text[i] = " " /\ text[i + 1] = " ")

(* C6: validate_fen returns false for every text that lacks one of the six *)
(* space-separated fields or one of the separators, and reads no byte      *)
(* after the text's terminating NUL in doing so.                           *)
C6_MissingFieldRejected ==
    (v_out # NotRun /\ ~ HasSixFields(v_in.text)) =>
        /\ v_out.ret = "false"
        /\ v_out.next - 1 <= Len(v_in.text) + 1

(* C7: a record has wdl exactly when the position after the move is        *)
(* terminal (checkmate, stalemate, insufficient material) or a DTZ probe   *)
(* on it succeeded; a record with dtz has wdl.                             *)
C7_WdlPresence ==
    /\ pc = "push" =>
          (info.has_wdl <=> (Terminal(Top(pos)) \/ info.dtz_probe = "ok"))
    /\ \A r \in Records :
          /\ r.has_wdl <=> (\/ r.checkmate \/ r.stalemate \/ r.insufficient_material
                            \/ r.dtz_probe = "ok")
          /\ r.has_dtz => r.has_wdl

\* an answered request with a probed record, a terminal record's wdl aside
C7_Witness ==
    /\ Answered
    /\ \E i, j \in 1..Len(move_infos) :
          /\ move_infos[i].dtz_probe = "ok" /\ move_infos[i].has_wdl
          /\ move_infos[j].dtz_probe = "failed" /\ ~ move_infos[j].has_wdl

(* C8: a failed DTZ probe does not fail the request: the record has wdl    *)
(* and dtz absent and no DTM probe is made for it, the move is undone, the *)
(* other moves are evaluated, and the request is answered 200 with a       *)
(* record for that move.                                                   *)
C8_ProbeFailureRecovered ==
    /\ \A r \in Records :
          r.dtz_probe = "failed" =>
             ~ r.has_wdl /\ ~ r.has_dtz /\ ~ r.has_dtm /\ ~ r.dtm_probed
    /\ \A i \in 1..Len(move_infos) :
          move_infos[i].dtz_probe = "failed" =>
             /\ pc \in {"loop", "push", "probe_dtz", "probe_dtm", "idle"}
             /\ pc = "loop" => Len(pos) = 1
             /\ pc = "idle" =>
                   /\ Answered
                   /\ Len(replies[1].moves) = legals
                   /\ \E k \in 1..Len(replies[1].moves) :
                         /\ replies[1].moves[k].uci = move_infos[i].uci
                         /\ replies[1].moves[k].wdl = Null
                         /\ replies[1].moves[k].dtz = Null

\* a request answered 200 although the DTZ probe after its first move
\* failed, in a build with the DTM backend
C8_Witness ==
    /\ Answered
    /\ gaviota
    /\ legals >= 2
    /\ \E i \in 1..Len(move_infos) :
          move_infos[i].dtz_probe = "failed" /\ move_infos[i].uci = Ucis[1]

\* the do_move and undo_move calls of this request, in order
DoUndo == SelectSeq(calls, LAMBDA c : c.op \in {"do_move", "undo_move"})

(* C9: an answered request's moves list holds exactly one record per legal *)
(* move of the query position; every do_move is followed by the matching   *)
(* undo_move before the next move is evaluated, so every move is rendered  *)
(* and evaluated on the unmodified query position; the list is empty only  *)
(* when the query position's checkmate or stalemate flag is true.          *)
C9_OneRecordPerMove ==
    /\ Answered =>
          /\ Len(replies[1].moves) = pos[1].num_moves
          /\ \A i \in 1..pos[1].num_moves :
                Cardinality({ k \in 1..Len(replies[1].moves) :
                                replies[1].moves[k].uci = Ucis[i] }) = 1
          /\ Len(replies[1].moves) = 0 =>
                replies[1].checkmate \/ replies[1].stalemate
    /\ \A k \in 1..Len(DoUndo) :
          /\ DoUndo[k].op = (IF k % 2 = 1 THEN "do_move" ELSE "undo_move")
          /\ DoUndo[k].arg = (k + 1) \div 2
    /\ pc \in {"loop", "idle"} => Len(DoUndo) % 2 = 0
    /\ pc = "loop" => Len(pos) = 1 /\ pos[1].applied = 0
    /\ pc \in {"probe_dtz", "probe_dtm", "push"} =>
          Len(pos) = 2 /\ pos[2].applied = m
    /\ \A r \in Records : r.rendered_on = 0

\* a request answered with two records, each move done and undone in turn
C9_Witness ==
    /\ Answered
    /\ Len(replies[1].moves) = 2
    /\ Len(DoUndo) = 4

(* C10: the query position's flags: checkmate iff it has no legal move and *)
(* the side to move is in check (in the atomic build also when it has no   *)
(* legal move and a king was captured); stalemate iff it has no legal move *)
(* and checkmate is false; never both.                                     *)
C10_QueryFlags ==
    Answered =>
        LET q == pos[1]
            in_check == q.checkers \/ (variant = "atomic" /\ q.is_atomic_loss)
        IN  /\ replies[1].checkmate <=> (q.num_moves = 0 /\ in_check)
            /\ replies[1].stalemate <=> (q.num_moves = 0 /\ ~ replies[1].checkmate)
            /\ ~ (replies[1].checkmate /\ replies[1].stalemate)

\* a query position that is checkmate was answered
C10_Witness ==
    Answered /\ replies[1].checkmate /\ Len(replies[1].moves) = 0

(* C11: a record carries dtm only in a build with the Gaviota backend: in  *)
(* a build without it no record has dtm and no move object of the response *)
(* has a dtm key, the records of mating moves included.                    *)
C11_DtmOnlyWithBackend ==
    ~ gaviota =>
        /\ \A r \in Records : ~ r.has_dtm
        /\ Answered =>
              \A k \in 1..Len(replies[1].moves) :
                 "dtm" \notin DOMAIN replies[1].moves[k]

(* C12: requests are stateless with respect to one another: get_api starts *)
(* every request on fresh locals, and its reply is determined by the       *)
(* request's fen and callback, the build and the engine's and tablebases'  *)
(* answers alone: the verdict of validate_fen is the same whatever bytes   *)
(* lie behind the text, and the moves of a 200 reply are the records of    *)
(* this request in the one order compare_move_info ranks them.             *)
C12_Stateless ==
    /\ pc = "get_api" =>
          /\ fen = <<>> /\ calls = <<>> /\ pos = <<>> /\ legals = 0
          /\ ~ checkmate /\ m = 0 /\ info = NewMoveInfo
          /\ move_infos = <<>> /\ replies = <<>>
    /\ (Len(calls) >= 1 /\ calls[1].op = "validate_fen") =>
          \A t \in Tails :
             validate_fen(variant, Memory(Normalize(req.fen), t)).ret = calls[1].ret
    /\ Answered =>
          /\ replies[1] = OkReply(req, checkmate, legals, move_infos)
          /\ IsSorted(move_infos)
          /\ \A s \in Permutations_of(move_infos) : IsSorted(s) => s = move_infos

\* the index of the first sep in text, Len(text) + 1 when there is none
FirstAt(text, sep) ==
    IF \E i \in 1..Len(text) : text[i] = sep
    THEN CHOOSE i \in 1..Len(text) :
            text[i] = sep /\ \A j \in 1..(i - 1) : text[j] # sep
    ELSE Len(text) + 1

\* the n-th field of text, fields being separated by single sep characters
RECURSIVE FieldOf(_, _, _)
FieldOf(text, sep, n) ==
    LET k == FirstAt(text, sep) IN
    IF n = 1 THEN SubSeq(text, 1, k - 1)
    ELSE IF k > Len(text) THEN <<>>
    ELSE FieldOf(SubSeq(text, k + 1, Len(text)), sep, n - 1)

\* one or more ASCII digits
IsDigits(s) == s # <<>> /\ \A i \in 1..Len(s) : InRange(s[i], "0", "9")

(* C13: validate_fen accepts a text only if its halfmove clock, the fifth  *)
(* field, is one or more ASCII digits; a text with an empty halfmove clock *)
(* or a non-digit character in it is rejected.                             *)
C13_HalfmoveDigits ==
    v_out # NotRun =>
        /\ v_out.ret = "true" => IsDigits(FieldOf(v_in.text, " ", 5))
        /\ (HasSixFields(v_in.text) /\ ~ IsDigits(FieldOf(v_in.text, " ", 5))) =>
              v_out.ret = "false"

\* the files a rank text fills: a digit '1'-'8' that many, a piece letter one
RECURSIVE FilesOf(_)
FilesOf(rank) ==
    IF rank = <<>> THEN 0
    ELSE (IF InRange(Head(rank), "1", "8")
          THEN Ord(Head(rank)) - Ord("0") ELSE 1) + FilesOf(Tail(rank))

PieceLetters == {"p", "n", "b", "r", "q", "k", "P", "N", "B", "R", "Q", "K"}

\* a rank of the board field: digits and piece letters, no two digits
\* adjacent, 8 files in all
RankOk(rank) ==
    /\ \A i \in 1..Len(rank) : InRange(rank[i], "1", "8") \/ rank[i] \in PieceLetters
    /\ \A i \in 1..(Len(rank) - 1) :
          ~ (InRange(rank[i], "1", "8") /\ InRange(rank[i + 1], "1", "8"))
    /\ FilesOf(rank) = 8

\* a board field: exactly 8 ranks separated by '/'
BoardOk(board) ==
    /\ Cardinality({ i \in 1..Len(board) : board[i] = "/" }) = 7
    /\ \A n \in 1..8 : RankOk(FieldOf(board, "/", n))

(* C14: validate_fen accepts a board field only if it has exactly 8 ranks  *)
(* separated by '/', every rank's digits and piece letters fill exactly 8  *)
(* files, no two digits are adjacent in a rank, and every other character  *)
(* is one of p, n, b, r, q, k in either case; every other board is         *)
(* rejected, without a read past the text.                                 *)
C14_BoardField ==
    v_out # NotRun =>
        LET board == FieldOf(v_in.text, " ", 1) IN
        /\ v_out.ret = "true" => BoardOk(board)
        /\ ~ BoardOk(board) =>
              v_out.ret = "false" /\ v_out.next - 1 <= Len(v_in.text) + 1

\* a board with two adjacent digits that fill its last rank was rejected
C14_Witness ==
    v_in.text = FenAdjacentDigits /\ v_out.ret = "false"

\* how many times c occurs in text
Count(text, c) == Cardinality({ i \in 1..Len(text) : text[i] = c })

(* C15: once the board field is scanned, validate_fen applies the build's  *)
(* king-count rule to the 'K's and 'k's seen: the default build rejects    *)
(* every board that has not exactly one white and one black king, the      *)
(* atomic build only boards without any king.                              *)
C15_KingCount ==
    v_out # NotRun =>
        LET board == FieldOf(v_in.text, " ", 1)
            wk == Count(board, "K")
            bk == Count(board, "k")
            scanned == BoardOk(board) /\ Len(board) < Len(v_in.text)
            kings_ok == IF variant = "atomic" THEN wk + bk >= 1
                        ELSE wk = 1 /\ bk = 1
        IN  /\ ~ kings_ok => v_out.ret = "false"
            /\ (scanned /\ ~ kings_ok) => v_out = Outcome("false", Len(board) + 2)
            /\ (scanned /\ kings_ok) => v_out.next - 1 > Len(board) + 1

\* the atomic build accepted a board with a single king
C15_Witness ==
    variant = "atomic" /\ v_in.text = FenLoneKing /\ v_out.ret = "true"

(* C16: the outcome is assembled by the first matching rule.  A record for *)
(* a non-terminal position is DTZ-probed only when the position has no     *)
(* castling rights and at most Tablebases::MaxCardinality pieces; outside  *)
(* those bounds it has wdl, dtz and dtm absent; a stalemate or             *)
(* insufficient-material record that is not checkmate has wdl = 0, dtz and *)
(* dtm absent, and is never probed; a checkmate record has wdl = -2 and    *)
(* dtz absent.                                                             *)
C16_OutcomeAssembly ==
    /\ pc \in {"probe_dtz", "probe_dtm", "push"} =>
          LET q == Top(pos)
              in_bounds == ~ q.can_castle /\ popcount(q.material) <= MaxCardinality
          IN  /\ info.dtz_probe # "none" => ~ Terminal(q) /\ in_bounds
              /\ (~ Terminal(q) /\ ~ in_bounds) =>
                    /\ ~ info.has_wdl /\ ~ info.has_dtz /\ ~ info.has_dtm
                    /\ info.dtz_probe = "none" /\ ~ info.dtm_probed
    /\ \A r \in Records :
          /\ (~ r.checkmate /\ (r.stalemate \/ r.insufficient_material)) =>
                /\ r.has_wdl /\ r.wdl = 0 /\ ~ r.has_dtz /\ ~ r.has_dtm
                /\ r.dtz_probe = "none" /\ ~ r.dtm_probed
          /\ r.checkmate =>
                r.has_wdl /\ r.wdl = -2 /\ ~ r.has_dtz /\ r.dtz_probe = "none"
    /\ Answered =>
          \A k \in 1..Len(replies[1].moves) :
             LET o == replies[1].moves[k] IN
             /\ o.checkmate => o.wdl = Number(-2) /\ o.dtz = Null
             /\ (~ o.checkmate /\ (o.stalemate \/ o.insufficient_material)) =>
                   o.wdl = Number(0) /\ o.dtz = Null /\ "dtm" \notin DOMAIN o

\* a request answered with a record left without wdl and unprobed, and an
\* insufficient-material record that was not probed either
C16_Witness ==
    /\ Answered
    /\ \E i, j \in 1..Len(move_infos) :
          /\ ~ move_infos[i].has_wdl /\ move_infos[i].dtz_probe = "none"
          /\ ~ move_infos[j].checkmate /\ move_infos[j].insufficient_material
          /\ move_infos[j].wdl = 0

(* C17: after a successful DTZ probe, wdl is derived from dtz and the      *)
(* halfmove clock c of the position after the move: -1 if dtz < -100 and   *)
(* dtz - c <= -100; else 1 if dtz > 100 and dtz + c >= -100; else -2, 2 or *)
(* 0 as dtz is negative, positive or zero; it is always in -2..2.          *)
C17_WdlFromDtz ==
    (pc = "push" /\ info.dtz_probe = "ok") =>
        LET d == info.dtz
            c == Top(pos).rule50_count
            cursed_loss == d < -100 /\ d - c <= -100
            blessed_win == d > 100 /\ d + c >= -100
        IN  /\ info.has_wdl
            /\ info.wdl \in -2..2
            /\ cursed_loss => info.wdl = -1
            /\ (~ cursed_loss /\ blessed_win) => info.wdl = 1
            /\ (~ cursed_loss /\ ~ blessed_win /\ d < 0) => info.wdl = -2
            /\ (~ cursed_loss /\ ~ blessed_win /\ d > 0) => info.wdl = 2
            /\ (~ cursed_loss /\ ~ blessed_win /\ d = 0) => info.wdl = 0

\* a dtz of exactly -100 probed with the clock running gave wdl -2
C17_Witness ==
    /\ pc = "push" /\ info.dtz_probe = "ok"
    /\ info.dtz = -100 /\ Top(pos).rule50_count = 50 /\ info.wdl = -2

\* the player who made the moves of this request
Mover == pos[1].side_to_move

(* C18 as claimed: when a DTM probe succeeds, the dtm of the record is     *)
(* positive when the player who just moved is the side that mates and      *)
(* negative when the side to move in the resulting position mates.         *)
C18_DtmMoverOriented ==
    \A r \in Records :
       (r.dtm_probed /\ r.has_dtm) =>
          /\ r.dtm_mater = Mover => r.dtm > 0
          /\ r.dtm_mater = Opponent(Mover) => r.dtm < 0

(* C18 as amended: when a DTM probe succeeds, the dtm of the record is     *)
(* positive when the side to move in the resulting position is the side    *)
(* that mates and negative when the player who just moved mates.          *)
C18_DtmResultOriented ==
    \A r \in Records :
       (r.dtm_probed /\ r.has_dtm) =>
          /\ r.dtm_mater \in {"w", "b"}
          /\ r.dtm_mater = Opponent(Mover) => r.dtm > 0
          /\ r.dtm_mater = Mover => r.dtm < 0

\* a request answered with a dtm for a move after which the mover mates
\* and a dtm for a move after which the opponent mates
C18_Witness ==
    /\ Answered
    /\ \E i, j \in 1..Len(move_infos) :
          /\ move_infos[i].dtm_probed /\ move_infos[i].has_dtm
          /\ move_infos[i].dtm_mater = Mover
          /\ move_infos[j].dtm_probed /\ move_infos[j].has_dtm
          /\ move_infos[j].dtm_mater = Opponent(Mover)

(* C19: in the ranked moves list every record with a known dtz precedes    *)
(* every record without one: for records a with dtz and b without,         *)
(* compare_move_info(a, b) is true and compare_move_info(b, a) is false.   *)
C19_KnownDtzFirst ==
    /\ \A a, b \in Records :
          (a.has_dtz /\ ~ b.has_dtz) =>
             compare_move_info(a, b) /\ ~ compare_move_info(b, a)
    /\ Answered =>
          \A i, j \in 1..Len(replies[1].moves) :
             (replies[1].moves[i].dtz # Null /\ replies[1].moves[j].dtz = Null) => i < j

\* two records tie on every key that compare_move_info looks at before the
\* zeroing flag
TieBeforeZeroing(a, b) ==
    /\ a.has_dtz = b.has_dtz /\ a.has_wdl = b.has_wdl
    /\ (a.has_wdl /\ b.has_wdl) => a.wdl = b.wdl
    /\ a.checkmate = b.checkmate /\ a.stalemate = b.stalemate
    /\ a.insufficient_material = b.insufficient_material
    /\ ~ (a.has_dtm /\ b.has_dtm /\ a.dtm # b.dtm)

(* C20: of two records that tie on all earlier keys and differ in zeroing, *)
(* the non-zeroing one sorts first when the mover is winning (wdl < 0),    *)
(* the zeroing one when the mover is losing (wdl > 0); when wdl is 0 or    *)
(* absent the zeroing flag does not affect the order.                      *)
C20_ZeroingPreference ==
    \A i, j \in 1..Len(move_infos) :
       LET a == move_infos[i]
           b == move_infos[j]
       IN  (TieBeforeZeroing(a, b) /\ a.zeroing # b.zeroing) =>
              /\ (a.has_wdl /\ a.wdl < 0) => (compare_move_info(a, b) <=> ~ a.zeroing)
              /\ (a.has_wdl /\ a.wdl > 0) => (compare_move_info(a, b) <=> a.zeroing)
              /\ (~ a.has_wdl \/ a.wdl = 0) =>
                    (compare_move_info(a, b)
                       <=> compare_move_info([a EXCEPT !.zeroing = b.zeroing], b))

\* the absolute value of a dtz
AbsDtz(d) == IF d < 0 THEN -d ELSE d

(* C21: for every probed dtz and every halfmove clock c >= 0 the wdl of    *)
(* the record does not depend on c: it is -1 exactly when dtz < -100 and 1 *)
(* exactly when dtz > 100, dtz = -100 gives -2 and dtz = 100 gives 2, and  *)
(* a won or lost position with |dtz| <= 100 whose dtz and clock together   *)
(* exceed 100 is still reported as an unconditional win or loss (2 or -2). *)
C21_WdlIgnoresClock ==
    (pc = "push" /\ info.dtz_probe = "ok") =>
        LET d == info.dtz
            c == Top(pos).rule50_count
        IN  /\ c >= 0
            /\ \A c2 \in 0..MaxClock :
                  AfterProbeDtz(Classify(variant, MaxCardinality, gaviota,
                                         [NewMoveInfo EXCEPT !.uci = info.uci,
                                                             !.san = info.san],
                                         ProbedPosition(c2)),
                                ProbedPosition(c2), "OK", d).wdl = info.wdl
            /\ info.wdl = -1 <=> d < -100
            /\ info.wdl = 1 <=> d > 100
            /\ d = -100 => info.wdl = -2
            /\ d = 100 => info.wdl = 2
            /\ (d # 0 /\ AbsDtz(d) <= 100 /\ AbsDtz(d) + c > 100) =>
                  info.wdl = (IF d < 0 THEN -2 ELSE 2)

\* a win in 60 plies probed with 50 plies on the clock gave wdl 2
C21_Witness ==
    /\ pc = "push" /\ info.dtz_probe = "ok"
    /\ info.dtz = 60 /\ Top(pos).rule50_count = 50 /\ info.wdl = 2

=============================================================================
